---- MODULE Spec2Model ----
(***************************************************************************)
(* Mood playlist generator: the artist recommender of src/src/groq_api.py  *)
(* (GroqMusicArtistService.get_artists and _parse_artists) and the webcam  *)
(* mood session of src/src/face_mood_analyzer.py (get_mood_from_webcam and *)
(* its background thread analyze_face_emotions), and the request handler   *)
(* generate_playlist of src/src/app.py that calls both.                    *)
(*                                                                         *)
(* Text is a sequence of one-character strings.  A character that is not   *)
(* ASCII is written as its code point ("U+2022" is the bullet glyph).      *)
(* Python's None is the empty tuple <<>> of an optional value <<v>>.       *)
(* Durations are in tenths of a second.                                    *)
(***************************************************************************)
EXTENDS Integers, Sequences, FiniteSets, TLC

(***************************************************************************)
(* Bounds of the model.                                                    *)
(***************************************************************************)
\* GROQ_RETRIES is drawn from -NegRetries .. MaxRetries
MaxRetries == 6
NegRetries == 1
\* the count argument is drawn from None and -1 .. MaxCount
MaxCount == 3
\* number of capture sessions run one after the other
MaxSessions == 2
\* number of requests the handler serves one after the other
MaxRequests == 1
\* labels appended to the mood series within the sessions of a run
MaxSeries == 2
\* length of the series handed to the aggregation on its own
MaxAggSeries == 4

(***************************************************************************)
(* Program constants.                                                      *)
(***************************************************************************)
\* GroqArtistConfig.backoff_initial = 0.6 s
BackoffInitial == 6
\* GroqArtistConfig.backoff_max = 6.0 s
BackoffMax == 60
\* GroqArtistConfig.enforce_count = 10
EnforceCount == 10

(***************************************************************************)
(* Characters and the string functions the code uses.                      *)
(***************************************************************************)
UpperSeq == <<"A","B","C","D","E","F","G","H","I","J","K","L","M",
              "N","O","P","Q","R","S","T","U","V","W","X","Y","Z">>
LowerSeq == <<"a","b","c","d","e","f","g","h","i","j","k","l","m",
              "n","o","p","q","r","s","t","u","v","w","x","y","z">>
Upper == {UpperSeq[i] : i \in 1..26}
Lower == {LowerSeq[i] : i \in 1..26}
Digits == {"0","1","2","3","4","5","6","7","8","9"}
\* str.strip() and the regex class \s
Whitespace == {" ", "\t", "\n", "\r"}
\* the bullet glyph U+2022
Bullet == "U+2022"
\* a Cyrillic letter, U+0416, standing for the non-Latin ranges of the letter class
Zhe == "U+0416"

\* str.lower() / str.casefold() of one character
LowerChar(c) ==
    IF c \in Upper THEN LowerSeq[CHOOSE i \in 1..26 : UpperSeq[i] = c] ELSE c

ToLower(s) == [i \in 1..Len(s) |-> LowerChar(s[i])]

RECURSIVE LStrip(_)
LStrip(s) ==
    IF s # <<>> /\ Head(s) \in Whitespace THEN LStrip(Tail(s)) ELSE s

RECURSIVE RStrip(_)
RStrip(s) ==
    IF s # <<>> /\ s[Len(s)] \in Whitespace
    THEN RStrip(SubSeq(s, 1, Len(s) - 1)) ELSE s

\* str.strip()
Strip(s) == RStrip(LStrip(s))

\* s.startswith(p)
StartsWith(s, p) == Len(p) <= Len(s) /\ SubSeq(s, 1, Len(p)) = p

\* p in s
Contains(s, p) ==
    \E i \in 1..(Len(s) - Len(p) + 1) : SubSeq(s, i, i + Len(p) - 1) = p

\* s.split(sep), for a non-empty separator
RECURSIVE SplitFrom(_, _, _)
SplitFrom(s, sep, cur) ==
    IF s = <<>> THEN <<cur>>
    ELSE IF StartsWith(s, sep)
         THEN <<cur>> \o SplitFrom(SubSeq(s, Len(sep) + 1, Len(s)), sep, <<>>)
         ELSE SplitFrom(Tail(s), sep, Append(cur, Head(s)))

Split(s, sep) == SplitFrom(s, sep, <<>>)

\* xs[:n], Python's slice with a possibly negative end
SliceTo(xs, n) ==
    IF n >= 0 THEN SubSeq(xs, 1, IF n < Len(xs) THEN n ELSE Len(xs))
    ELSE SubSeq(xs, 1, Len(xs) + n)

Min(a, b) == IF a < b THEN a ELSE b
Max(a, b) == IF a > b THEN a ELSE b

RECURSIVE Pow2(_)
Pow2(n) == IF n <= 0 THEN 1 ELSE 2 * Pow2(n - 1)

(***************************************************************************)
(* _parse_artists (groq_api.py 86-119).  The texts of the model hold no    *)
(* backtick, so the fence-stripping substitution of line 90 leaves them    *)
(* unchanged.                                                              *)
(***************************************************************************)
\* line 91: [l for l in text.replace("\r", "").split("\n") if l.strip()]
RECURSIVE DropChar(_, _)
DropChar(s, c) ==
    IF s = <<>> THEN <<>>
    ELSE IF Head(s) = c THEN DropChar(Tail(s), c)
         ELSE <<Head(s)>> \o DropChar(Tail(s), c)

RECURSIVE NonBlank(_)
NonBlank(ls) ==
    IF ls = <<>> THEN <<>>
    ELSE IF Strip(Head(ls)) # <<>> THEN <<Head(ls)>> \o NonBlank(Tail(ls))
         ELSE NonBlank(Tail(ls))

SplitLines(text) == NonBlank(Split(DropChar(text, "\r"), <<"\n">>))

\* lines 92-98: a single line holding a separator is split on one separator
Comma == <<",">>
BulletSep == <<" ", Bullet, " ">>
PipeSep == <<" ", "|", " ">>

NeedsResplit(lines) ==
    /\ Len(lines) = 1
    /\ \/ Contains(lines[1], Comma)
       \/ Contains(lines[1], BulletSep)
       \/ Contains(lines[1], PipeSep)

\* a choice that prefers the comma
ChooseSep_CommaFirst(line) ==
    IF Contains(line, Comma) THEN Comma
    ELSE IF Contains(line, BulletSep) THEN BulletSep
    ELSE PipeSep

\* lines 93-97: the comma, overridden by the bullet, overridden by the pipe
ChooseSep(line) ==
    IF Contains(line, PipeSep) THEN PipeSep
    ELSE IF Contains(line, BulletSep) THEN BulletSep
    ELSE Comma

RECURSIVE StripAllNonEmpty(_)
StripAllNonEmpty(ps) ==
    IF ps = <<>> THEN <<>>
    ELSE IF Strip(Head(ps)) # <<>>
         THEN <<Strip(Head(ps))>> \o StripAllNonEmpty(Tail(ps))
         ELSE StripAllNonEmpty(Tail(ps))

Resplit(lines) ==
    IF NeedsResplit(lines)
    THEN StripAllNonEmpty(Split(lines[1], ChooseSep(lines[1])))
    ELSE lines

\* line 103: re.sub(r"^\s*(?:[\-\*\u2022]|[0-9]{1,2}[.)])\s*", "", line).strip()
MarkerChars == {"-", "*", Bullet}
NumberEnd == {".", ")"}

StripMarker(line) ==
    LET s == LStrip(line) IN
    Strip(IF s # <<>> /\ Head(s) \in MarkerChars
          THEN LStrip(Tail(s))
          ELSE IF Len(s) >= 3 /\ s[1] \in Digits /\ s[2] \in Digits /\ s[3] \in NumberEnd
          THEN LStrip(SubSeq(s, 4, Len(s)))
          ELSE IF Len(s) >= 2 /\ s[1] \in Digits /\ s[2] \in NumberEnd
          THEN LStrip(SubSeq(s, 3, Len(s)))
          ELSE line)

\* line 104: re.sub of leading and trailing runs of quote characters, .strip()
\* the double quote, the apostrophe and the four curly quotes U+201C U+201D U+2018 U+2019
QuoteChars == {"\"", "'", "U+201C", "U+201D", "U+2018", "U+2019"}

RECURSIVE LStripQuotes(_)
LStripQuotes(s) ==
    IF s # <<>> /\ Head(s) \in QuoteChars THEN LStripQuotes(Tail(s)) ELSE s

RECURSIVE RStripQuotes(_)
RStripQuotes(s) ==
    IF s # <<>> /\ s[Len(s)] \in QuoteChars
    THEN RStripQuotes(SubSeq(s, 1, Len(s) - 1)) ELSE s

StripQuotes(item) == Strip(RStripQuotes(LStripQuotes(item)))

CleanItem(line) == StripQuotes(StripMarker(line))

\* line 105: the preamble markers
PreambleMarkers ==
    { <<"a","r","t","i","s","t","s",":">>,
      <<"h","e","r","e"," ","a","r","e">>,
      <<"l","i","s","t",":">>,
      <<"o","u","t","p","u","t">>,
      <<"n","a","m","e","s",":">> }

IsPreamble(item) == \E m \in PreambleMarkers : Contains(ToLower(item), m)

\* line 107: the letter class (Latin, and Zhe for the other scripts)
Letters == Upper \cup Lower \cup {Zhe}

HasLetter(item) == \E i \in 1..Len(item) : item[i] \in Letters

\* a key that keeps the case of the item
Casefold_Exact(item) == item

\* line 109: item.casefold()
Casefold(item) == ToLower(item)

\* lines 100-115: the cleaning loop, with its break at target_count
RECURSIVE CleanLoop(_, _, _, _)
CleanLoop(lines, cleaned, seen, target_count) ==
    IF lines = <<>> THEN cleaned
    ELSE LET item == CleanItem(Head(lines))
             key == Casefold(item)
         IN IF IsPreamble(item) \/ ~HasLetter(item) \/ key \in seen
            THEN CleanLoop(Tail(lines), cleaned, seen, target_count)
            ELSE IF Len(cleaned) + 1 >= target_count
                 THEN Append(cleaned, item)
                 ELSE CleanLoop(Tail(lines), Append(cleaned, item),
                                seen \cup {key}, target_count)

\* lines 117-119
Truncate(cleaned, target_count) ==
    IF Len(cleaned) > target_count THEN SliceTo(cleaned, target_count) ELSE cleaned

\* _parse_artists(raw, target_count)
ParseArtists(raw, target_count) ==
    IF raw = <<>> THEN <<>>
    ELSE Truncate(CleanLoop(Resplit(SplitLines(Strip(raw))), <<>>, {}, target_count),
                  target_count)

(***************************************************************************)
(* The backend's possible response texts: completion.choices[0].message    *)
(* .content of groq_api.py line 70.                                        *)
(***************************************************************************)
\* 
RespEmpty ==
    <<>>
\* Adele
RespOne ==
    <<"A","d","e","l","e">>
\* Adele\nDrake
RespTwo ==
    <<"A","d","e","l","e","\n","D","r","a","k","e">>
\* Adele\nDrake\nSia
RespThree ==
    <<"A","d","e","l","e","\n","D","r","a","k","e","\n","S","i","a">>
\* Adele\nDrake\nadele
RespDupCase ==
    <<"A","d","e","l","e","\n","D","r","a","k","e","\n","a","d","e","l","e">>
\* 1. Adele\n2. Drake\n3. Adele
RespNumbered ==
    <<"1","."," ","A","d","e","l","e","\n","2","."," ","D","r","a","k","e",
      "\n","3","."," ","A","d","e","l","e">>
\* Here are the artists:\nAdele\nDrake
RespPreamble ==
    <<"H","e","r","e"," ","a","r","e"," ","t","h","e"," ","a","r","t","i",
      "s","t","s",":","\n","A","d","e","l","e","\n","D","r","a","k","e">>
\* Adele, Drake
RespComma ==
    <<"A","d","e","l","e",","," ","D","r","a","k","e">>
\* Adele | Drake, Sia
RespPipe ==
    <<"A","d","e","l","e"," ","|"," ","D","r","a","k","e",","," ","S","i",
      "a">>
\* Adele (bullet) Drake (bullet) Sia
RespBullet ==
    <<"A","d","e","l","e"," ",Bullet," ","D","r","a","k","e"," ",Bullet," ",
      "S","i","a">>
\* - Adele\n* "Drake"\n12) Sia
RespMarkers ==
    <<"-"," ","A","d","e","l","e","\n","*"," ","\"","D","r","a","k","e",
      "\"","\n","1","2",")"," ","S","i","a">>
\* 123\n---
RespNoLetters ==
    <<"1","2","3","\n","-","-","-">>
\* A1\nB2\nC3\nD4\nE5\nF6\nG7\nH8\nI9\nJ0
RespTen ==
    <<"A","1","\n","B","2","\n","C","3","\n","D","4","\n","E","5","\n","F",
      "6","\n","G","7","\n","H","8","\n","I","9","\n","J","0">>
Responses ==
    { RespEmpty,
      RespOne,
      RespTwo,
      RespThree,
      RespDupCase,
      RespNumbered,
      RespPreamble,
      RespComma,
      RespPipe,
      RespBullet,
      RespMarkers,
      RespNoLetters,
      RespTen }

(***************************************************************************)
(* State.                                                                  *)
(***************************************************************************)
VARIABLES
    \* GroqMusicArtistService.get_artists
    rpc,              \* position: "off", "call", "loop", "done"
    moodArg,          \* the mood argument: [isStr, s]
    languageArg,      \* the language argument: <<>> (None) or <<[isStr, s]>>
    countArg,         \* the count argument: <<>> (None) or <<n>>
    retries,          \* config.retries
    mood,             \* local mood after line 35
    language,         \* local language after line 37: <<>> or <<s>>
    target_count,     \* line 38
    attempts,         \* line 39
    attempt,          \* the loop variable of line 47
    prompt,           \* the last request sent: [strict, withLanguage]
    artists,          \* the last parsed list (line 71)
    calls,            \* number of backend calls made (line 61)
    sleeps,           \* the delays slept so far, in order (lines 76, 81)
    outcomes,         \* what the backend calls did so far: a set of "raise", "text"
    lastOutcome,      \* what the last backend call did: "none", "raise", "text"
    result,           \* the returned list
    rawText,          \* the text of the last backend answer (raw, line 70)
    \* face_mood_analyzer.py: the module's globals
    latest_frame,         \* 0 (None) or the session that captured the frame
    latest_analysis,      \* <<>> ({}) or <<dominant emotion>>
    last_known_emotions,  \* the mood series
    stop_thread,          \* the stop flag
    lock,                 \* data_lock: the set of tasks holding it (none or one)
    \* get_mood_from_webcam, the foreground task 0
    fpc,                  \* position of the foreground task
    session,              \* number of sessions started so far
    emotional_moods,      \* local of line 124
    returned,             \* <<>> while the session runs, else <<value returned>>
    \* analyze_face_emotions, background task t started by session t
    bpc,                  \* position of each background task
    frame_to_analyze,     \* local of line 23
    analysis,             \* what the classifier call of lines 26-35 gave
    cap_opened,           \* cap of line 58 is open and not yet released
    window_shown,         \* the display window of lines 63-65 exists
    \* app.py generate_playlist, the request handler
    hpc,                  \* position of the handler
    languageParam,        \* language of line 19: <<>> (None) or <<str>>
    artistParam,          \* artist of line 20: <<>> (None) or <<str>>
    requests,             \* number of requests begun so far
    called,               \* the collaborators this request has called
    recommended_artists,  \* local of line 46
    response              \* <<>> or <<the JSON body answered>>

recVars == <<rpc, moodArg, languageArg, countArg, retries, mood, language,
             target_count, attempts, attempt, prompt, artists, calls, sleeps,
             outcomes, lastOutcome, result, rawText>>

camVars == <<latest_frame, latest_analysis, last_known_emotions, stop_thread,
             lock, fpc, session, emotional_moods, returned, bpc,
             frame_to_analyze, analysis, cap_opened, window_shown>>

devVars == <<cap_opened, window_shown>>

appVars == <<hpc, languageParam, artistParam, requests, called,
             recommended_artists, response>>

vars == <<recVars, camVars, appVars>>

\* Adele (bullet) Drake, Sia
RespBulletComma ==
    <<"A","d","e","l","e"," ",Bullet," ","D","r","a","k","e",","," ","S",
      "i","a">>
\* Adele | Drake (bullet) Sia, Cher
RespAllSeps ==
    <<"A","d","e","l","e"," ","|"," ","D","r","a","k","e"," ",Bullet," ",
      "S","i","a",","," ","C","h","e","r">>
\* Adele, Drake\nSia | Cher
RespTwoLinesSeps ==
    <<"A","d","e","l","e",","," ","D","r","a","k","e","\n","S","i","a"," ",
      "|"," ","C","h","e","r">>
\* Adele|Drake
RespTightPipe ==
    <<"A","d","e","l","e","|","D","r","a","k","e">>
\* Adele,Drake,,Sia
RespTightComma ==
    <<"A","d","e","l","e",",","D","r","a","k","e",",",",","S","i","a">>
\* Adele, Drake \n\n
RespTrailingBlank ==
    <<"A","d","e","l","e",","," ","D","r","a","k","e"," ","\n","\n">>
\* the texts _parse_artists is applied to on its own: the responses above and
\* texts that mix the separators of lines 92-97
ParseTexts ==
    Responses \cup { RespBulletComma,
                    RespAllSeps,
                    RespTwoLinesSeps,
                    RespTightPipe,
                    RespTightComma,
                    RespTrailingBlank }

(***************************************************************************)
(* get_artists (groq_api.py 32-84).                                        *)
(***************************************************************************)
Str(s) == [isStr |-> TRUE, s |-> s]
\* a value that is not a str (an int, None)
NotStr == [isStr |-> FALSE, s |-> <<>>]

Moods == { NotStr, Str(<<>>), Str(<<" ">>), Str(<<" ", "\t">>),
           Str(<<"s", "a", "d">>), Str(<<" ", "s", "a", "d", " ">>) }
Languages == { <<>>, <<NotStr>>, <<Str(<<" ">>)>>, <<Str(<<"h", "i">>)>> }
Counts == { <<>> } \cup { <<n>> : n \in (0 - 1)..MaxCount }
RetriesValues == (0 - NegRetries)..MaxRetries

\* a validation that forgets the strip
ValidMood_NoStrip(m) == m.isStr /\ m.s # <<>>

\* line 33: isinstance(mood, str) and mood.strip()
ValidMood(m) == m.isStr /\ Strip(m.s) # <<>>

\* lines 36-37
NormLanguage(l) ==
    IF l # <<>> /\ (~l[1].isStr \/ Strip(l[1].s) = <<>>) THEN <<>>
    ELSE IF l = <<>> THEN <<>> ELSE <<l[1].s>>

\* line 38: count or self.config.enforce_count
TargetCount(c) == IF c = <<>> \/ c[1] = 0 THEN EnforceCount ELSE c[1]

\* an attempt count that is not clamped to at least one
Attempts_NoClamp(r) == r

\* line 39: max(1, self.config.retries)
Attempts(r) == Max(1, r)

\* lines 48-52: how strict the system prompt is
Strictness(a) == IF a >= 3 THEN 3 ELSE IF a = 2 THEN 2 ELSE 1

\* lines 54-57: the user prompt names the language when `if language:` holds
Prompt(a, l) == [strict |-> Strictness(a), withLanguage |-> (l # <<>> /\ l[1] # <<>>)]

\* a success test that accepts any non-empty list
Matches_NonEmpty(as, tc) == Len(as) >= 1

\* line 72: len(artists) == target_count
Matches(as, tc) == Len(as) = tc

\* a backoff that also sleeps after the last attempt
SleepsAfter_Always(a, n) == a <= n

\* lines 74 and 79: attempt < attempts
SleepsAfter(a, n) == a < n

\* lines 75 and 80: min(backoff_initial * 2 ** (attempt - 1), backoff_max)
Delay(a) == Min(BackoffInitial * Pow2(a - 1), BackoffMax)

\* a loop exit that hands back the last parsed list
LoopExhaustedResult_Partial(as) == as

\* line 84: the return after the loop
LoopExhaustedResult(as) == <<>>

RecOff ==
    /\ rpc = "off"
    /\ moodArg = NotStr /\ languageArg = <<>> /\ countArg = <<>> /\ retries = 0
    /\ mood = <<>> /\ language = <<>> /\ target_count = 0 /\ attempts = 0
    /\ attempt = 0 /\ prompt = [strict |-> 0, withLanguage |-> FALSE]
    /\ artists = <<>> /\ calls = 0 /\ sleeps = <<>>
    /\ outcomes = {} /\ lastOutcome = "none" /\ result = <<>>
    /\ rawText = <<>>

RecInit ==
    /\ rpc = "call"
    /\ moodArg \in Moods
    /\ languageArg \in Languages
    /\ countArg \in Counts
    /\ retries \in RetriesValues
    /\ mood = <<>> /\ language = <<>> /\ target_count = 0 /\ attempts = 0
    /\ attempt = 0 /\ prompt = [strict |-> 0, withLanguage |-> FALSE]
    /\ artists = <<>> /\ calls = 0 /\ sleeps = <<>>
    /\ outcomes = {} /\ lastOutcome = "none" /\ result = <<>>
    /\ rawText = <<>>

\* lines 33-34: the mood is rejected
Reject ==
    /\ rpc = "call"
    /\ ~ValidMood(moodArg)
    /\ result' = <<>>
    /\ rpc' = "done"
    /\ UNCHANGED <<moodArg, languageArg, countArg, retries, mood, language,
                   target_count, attempts, attempt, prompt, artists, calls,
                   sleeps, outcomes, lastOutcome, rawText>>
    /\ UNCHANGED <<camVars, appVars>>

\* lines 33-47: the mood is accepted and the loop is entered
Begin ==
    /\ rpc = "call"
    /\ ValidMood(moodArg)
    /\ mood' = Strip(moodArg.s)
    /\ language' = NormLanguage(languageArg)
    /\ target_count' = TargetCount(countArg)
    /\ attempts' = Attempts(retries)
    /\ attempt' = 1
    /\ rpc' = "loop"
    /\ UNCHANGED <<moodArg, languageArg, countArg, retries, prompt, artists,
                   calls, sleeps, outcomes, lastOutcome, result, rawText>>
    /\ UNCHANGED <<camVars, appVars>>

\* lines 47-70, 77-83: an attempt whose backend call raises
AttemptRaises ==
    /\ rpc = "loop"
    /\ attempt <= attempts
    /\ prompt' = Prompt(attempt, language)
    /\ calls' = calls + 1
    /\ outcomes' = outcomes \cup {"raise"}
    /\ lastOutcome' = "raise"
    /\ IF SleepsAfter(attempt, attempts)
       THEN /\ sleeps' = Append(sleeps, Delay(attempt))
            /\ attempt' = attempt + 1
            /\ UNCHANGED <<rpc, result>>
       ELSE /\ result' = <<>>
            /\ rpc' = "done"
            /\ UNCHANGED <<sleeps, attempt>>
    /\ UNCHANGED <<moodArg, languageArg, countArg, retries, mood, language,
                   target_count, attempts, artists, rawText>>
    /\ UNCHANGED <<camVars, appVars>>

\* lines 47-76 without the return of line 73: a matching list is kept and the
\* loop goes on
AttemptAnswers_NoReturn(raw) ==
    /\ rpc = "loop"
    /\ attempt <= attempts
    /\ prompt' = Prompt(attempt, language)
    /\ calls' = calls + 1
    /\ outcomes' = outcomes \cup {"text"}
    /\ lastOutcome' = "text"
    /\ rawText' = raw
    /\ artists' = ParseArtists(raw, target_count)
    /\ result' = IF Matches(artists', target_count) THEN artists' ELSE result
    /\ sleeps' = IF SleepsAfter(attempt, attempts)
                 THEN Append(sleeps, Delay(attempt)) ELSE sleeps
    /\ attempt' = attempt + 1
    /\ UNCHANGED <<rpc, moodArg, languageArg, countArg, retries, mood, language,
                   target_count, attempts>>
    /\ UNCHANGED <<camVars, appVars>>

\* lines 47-76: an attempt whose backend call answers with the text raw
AttemptAnswers(raw) ==
    /\ rpc = "loop"
    /\ attempt <= attempts
    /\ prompt' = Prompt(attempt, language)
    /\ calls' = calls + 1
    /\ outcomes' = outcomes \cup {"text"}
    /\ lastOutcome' = "text"
    /\ rawText' = raw
    /\ artists' = ParseArtists(raw, target_count)
    /\ IF Matches(artists', target_count)
       THEN /\ result' = artists'
            /\ rpc' = "done"
            /\ UNCHANGED <<sleeps, attempt>>
       ELSE /\ sleeps' = IF SleepsAfter(attempt, attempts)
                         THEN Append(sleeps, Delay(attempt)) ELSE sleeps
            /\ attempt' = attempt + 1
            /\ UNCHANGED <<rpc, result>>
    /\ UNCHANGED <<moodArg, languageArg, countArg, retries, mood, language,
                   target_count, attempts>>
    /\ UNCHANGED <<camVars, appVars>>

\* lines 47, 84: the loop has run out of attempts
LoopExhausted ==
    /\ rpc = "loop"
    /\ attempt > attempts
    /\ result' = LoopExhaustedResult(artists)
    /\ rpc' = "done"
    /\ UNCHANGED <<moodArg, languageArg, countArg, retries, mood, language,
                   target_count, attempts, attempt, prompt, artists, calls,
                   sleeps, outcomes, lastOutcome, rawText>>
    /\ UNCHANGED <<camVars, appVars>>

RecNext ==
    \/ Reject
    \/ Begin
    \/ AttemptRaises
    \/ \E raw \in Responses : AttemptAnswers(raw)
    \/ LoopExhausted

(***************************************************************************)
(* The mood session (face_mood_analyzer.py).  Task 0 is the foreground     *)
(* get_mood_from_webcam; task t in 1..MaxSessions is the background thread *)
(* analyze_face_emotions started by session t.  A frame is known by the    *)
(* session that captured it.                                               *)
(***************************************************************************)
Foreground == 0
Threads == 1..MaxSessions
\* dominant emotions the classifier can report
Labels == {"neutral", "happy", "sad"}
\* the globals of lines 8-11
SharedFields == {"latest_frame", "latest_analysis", "last_known_emotions", "stop_thread"}

\* Counter(xs): its keys in the order of first insertion
RECURSIVE CounterKeys(_, _)
CounterKeys(xs, keys) ==
    IF xs = <<>> THEN keys
    ELSE IF \E i \in 1..Len(keys) : keys[i] = Head(xs)
         THEN CounterKeys(Tail(xs), keys)
         ELSE CounterKeys(Tail(xs), Append(keys, Head(xs)))

\* Counter(xs)[x]
RECURSIVE CounterCount(_, _)
CounterCount(xs, x) ==
    IF xs = <<>> THEN 0
    ELSE (IF Head(xs) = x THEN 1 ELSE 0) + CounterCount(Tail(xs), x)

\* max(items, key=count), as most_common(1) computes it: the first item in
\* iteration order whose count no later item exceeds
RECURSIVE MaxByCount(_, _, _)
MaxByCount(keys, xs, best) ==
    IF keys = <<>> THEN best
    ELSE IF CounterCount(xs, Head(keys)) > CounterCount(xs, best)
         THEN MaxByCount(Tail(keys), xs, Head(keys))
         ELSE MaxByCount(Tail(keys), xs, best)

\* Counter(xs).most_common(1)[0][0], for a non-empty xs
MostCommon(xs) ==
    LET keys == CounterKeys(xs, <<>>) IN MaxByCount(Tail(keys), xs, Head(keys))

\* a filter that keeps the neutral entries
EmotionalMoods_Unfiltered(xs) == xs

\* line 124: [mood for mood in last_known_emotions if mood != 'neutral']
RECURSIVE EmotionalMoods(_)
EmotionalMoods(xs) ==
    IF xs = <<>> THEN <<>>
    ELSE IF Head(xs) # "neutral" THEN <<Head(xs)>> \o EmotionalMoods(Tail(xs))
         ELSE EmotionalMoods(Tail(xs))

\* a publication that overwrites the series
Published_Overwrite(series, label) == <<label>>

\* line 39: last_known_emotions.append(analysis['dominant_emotion'])
Published(series, label) == Append(series, label)

\* the module as imported, before any session (lines 7-11)
CamInit ==
    /\ latest_frame = 0
    /\ latest_analysis = <<>>
    /\ last_known_emotions = <<>>
    /\ stop_thread = FALSE
    /\ lock = {}
    /\ fpc = "idle"
    /\ session = 0
    /\ emotional_moods = <<>>
    /\ returned = <<>>
    /\ bpc = [t \in Threads |-> "none"]
    /\ frame_to_analyze = [t \in Threads |-> 0]
    /\ analysis = [t \in Threads |-> "empty"]
    /\ cap_opened = FALSE
    /\ window_shown = FALSE

\* lines 50-56: a session begins and resets the globals
FgReset ==
    /\ fpc = "idle"
    /\ session < MaxSessions
    /\ session' = session + 1
    /\ latest_frame' = 0
    /\ latest_analysis' = <<>>
    /\ last_known_emotions' = <<>>
    /\ stop_thread' = FALSE
    /\ returned' = <<>>
    /\ fpc' = "open"
    /\ UNCHANGED <<lock, emotional_moods, bpc, frame_to_analyze, analysis>>
    /\ UNCHANGED devVars
    /\ UNCHANGED <<recVars, appVars>>

\* lines 58-61: the webcam does not open
FgOpenFails ==
    /\ fpc = "open"
    /\ returned' = <<"None">>
    /\ fpc' = "idle"
    /\ UNCHANGED <<latest_frame, latest_analysis, last_known_emotions, stop_thread,
                   lock, session, emotional_moods, bpc, frame_to_analyze, analysis>>
    /\ UNCHANGED devVars
    /\ UNCHANGED <<recVars, appVars>>

\* lines 58-73: the webcam opens and the background thread is started
FgOpenStarts ==
    /\ fpc = "open"
    /\ cap_opened' = TRUE
    /\ window_shown' = TRUE
    /\ bpc' = [bpc EXCEPT ![session] = "check"]
    /\ fpc' = "loop"
    /\ UNCHANGED <<latest_frame, latest_analysis, last_known_emotions, stop_thread,
                   lock, session, emotional_moods, returned, frame_to_analyze,
                   analysis>>
    /\ UNCHANGED <<recVars, appVars>>

\* lines 75-82: a frame is read and data_lock is taken
FgAcquire ==
    /\ fpc = "loop"
    /\ lock = {}
    /\ lock' = {Foreground}
    /\ fpc' = "publish"
    /\ UNCHANGED <<latest_frame, latest_analysis, last_known_emotions, stop_thread,
                   session, emotional_moods, returned, bpc, frame_to_analyze,
                   analysis>>
    /\ UNCHANGED devVars
    /\ UNCHANGED <<recVars, appVars>>

\* lines 83-109: the frame is published, the analysis copied, the lock released
FgPublish ==
    /\ fpc = "publish"
    /\ latest_frame' = session
    /\ lock' = lock \ {Foreground}
    /\ fpc' = "loop"
    /\ UNCHANGED <<latest_analysis, last_known_emotions, stop_thread, session,
                   emotional_moods, returned, bpc, frame_to_analyze, analysis>>
    /\ UNCHANGED devVars
    /\ UNCHANGED <<recVars, appVars>>

\* lines 75, 77-78, 109-111: the window elapsed, a read failed or the user quit
FgLeaveLoop ==
    /\ fpc = "loop"
    /\ fpc' = "stop"
    /\ UNCHANGED <<latest_frame, latest_analysis, last_known_emotions, stop_thread,
                   lock, session, emotional_moods, returned, bpc, frame_to_analyze,
                   analysis>>
    /\ UNCHANGED devVars
    /\ UNCHANGED <<recVars, appVars>>

\* lines 113-114 alone: the stop flag is set, the webcam and the window are kept
FgStop_NoRelease ==
    /\ fpc = "stop"
    /\ stop_thread' = TRUE
    /\ fpc' = "join"
    /\ UNCHANGED <<latest_frame, latest_analysis, last_known_emotions, lock,
                   session, emotional_moods, returned, bpc, frame_to_analyze,
                   analysis>>
    /\ UNCHANGED devVars
    /\ UNCHANGED <<recVars, appVars>>

\* lines 113-116: the stop flag is set, the webcam is released and the window
\* is destroyed
FgStop ==
    /\ fpc = "stop"
    /\ stop_thread' = TRUE
    /\ cap_opened' = FALSE
    /\ window_shown' = FALSE
    /\ fpc' = "join"
    /\ UNCHANGED <<latest_frame, latest_analysis, last_known_emotions, lock,
                   session, emotional_moods, returned, bpc, frame_to_analyze,
                   analysis>>
    /\ UNCHANGED <<recVars, appVars>>

\* line 117: join returns because the session's thread has ended
FgJoinEnds ==
    /\ fpc = "join"
    /\ bpc[session] = "done"
    /\ fpc' = "agg120"
    /\ UNCHANGED <<latest_frame, latest_analysis, last_known_emotions, stop_thread,
                   lock, session, emotional_moods, returned, bpc, frame_to_analyze,
                   analysis>>
    /\ UNCHANGED devVars
    /\ UNCHANGED <<recVars, appVars>>

\* line 117: join gives up after 2 s.  Every other wait of the thread is
\* short (0.1 s, 0.5 s, a lock held for a few statements); only a classifier
\* call can outlast the timeout.
FgJoinTimesOut ==
    /\ fpc = "join"
    /\ bpc[session] = "analyze"
    /\ fpc' = "agg120"
    /\ UNCHANGED <<latest_frame, latest_analysis, last_known_emotions, stop_thread,
                   lock, session, emotional_moods, returned, bpc, frame_to_analyze,
                   analysis>>
    /\ UNCHANGED devVars
    /\ UNCHANGED <<recVars, appVars>>

\* lines 120-122: the series is tested for emptiness
FgAgg120 ==
    /\ fpc = "agg120"
    /\ IF last_known_emotions = <<>>
       THEN returned' = <<"neutral">> /\ fpc' = "idle"
       ELSE fpc' = "agg124" /\ UNCHANGED returned
    /\ UNCHANGED <<latest_frame, latest_analysis, last_known_emotions, stop_thread,
                   lock, session, emotional_moods, bpc, frame_to_analyze, analysis>>
    /\ UNCHANGED devVars
    /\ UNCHANGED <<recVars, appVars>>

\* line 124: the neutral entries are filtered out
FgAgg124 ==
    /\ fpc = "agg124"
    /\ emotional_moods' = EmotionalMoods(last_known_emotions)
    /\ fpc' = "agg126"
    /\ UNCHANGED <<latest_frame, latest_analysis, last_known_emotions, stop_thread,
                   lock, session, returned, bpc, frame_to_analyze, analysis>>
    /\ UNCHANGED devVars
    /\ UNCHANGED <<recVars, appVars>>

\* lines 126-134: the most common label is returned
FgAgg126 ==
    /\ fpc = "agg126"
    /\ IF emotional_moods # <<>>
       THEN returned' = <<MostCommon(emotional_moods)>>
       ELSE returned' = <<MostCommon(last_known_emotions)>>
    /\ emotional_moods' = <<>>
    /\ fpc' = "idle"
    /\ UNCHANGED <<latest_frame, latest_analysis, last_known_emotions, stop_thread,
                   lock, session, bpc, frame_to_analyze, analysis>>
    /\ UNCHANGED devVars
    /\ UNCHANGED <<recVars, appVars>>

\* line 18: while not stop_thread
BgCheck(t) ==
    /\ bpc[t] = "check"
    /\ bpc' = [bpc EXCEPT ![t] = IF stop_thread THEN "done" ELSE "acquire"]
    /\ UNCHANGED <<latest_frame, latest_analysis, last_known_emotions, stop_thread,
                   lock, fpc, session, emotional_moods, returned, frame_to_analyze,
                   analysis>>
    /\ UNCHANGED devVars
    /\ UNCHANGED <<recVars, appVars>>

\* line 19: with data_lock
BgAcquire(t) ==
    /\ bpc[t] = "acquire"
    /\ lock = {}
    /\ lock' = {t}
    /\ bpc' = [bpc EXCEPT ![t] = "test"]
    /\ UNCHANGED <<latest_frame, latest_analysis, last_known_emotions, stop_thread,
                   fpc, session, emotional_moods, returned, frame_to_analyze,
                   analysis>>
    /\ UNCHANGED devVars
    /\ UNCHANGED <<recVars, appVars>>

\* lines 20-23 with the copy of the frame and the classifier call left inside
\* the with block
BgTest_KeepsLock(t) ==
    /\ bpc[t] = "test"
    /\ IF latest_frame = 0
       THEN /\ bpc' = [bpc EXCEPT ![t] = "idle"]
            /\ UNCHANGED <<lock, frame_to_analyze>>
       ELSE /\ frame_to_analyze' = [frame_to_analyze EXCEPT ![t] = latest_frame]
            /\ lock' = lock
            /\ bpc' = [bpc EXCEPT ![t] = "analyze"]
    /\ UNCHANGED <<latest_frame, latest_analysis, last_known_emotions, stop_thread,
                   fpc, session, emotional_moods, returned, analysis>>
    /\ UNCHANGED devVars
    /\ UNCHANGED <<recVars, appVars>>

\* lines 20-23: no frame yet, so sleep 0.1 s inside the with block; or copy the
\* frame and leave the with block
BgTest(t) ==
    /\ bpc[t] = "test"
    /\ IF latest_frame = 0
       THEN /\ bpc' = [bpc EXCEPT ![t] = "idle"]
            /\ UNCHANGED <<lock, frame_to_analyze>>
       ELSE /\ frame_to_analyze' = [frame_to_analyze EXCEPT ![t] = latest_frame]
            /\ lock' = lock \ {t}
            /\ bpc' = [bpc EXCEPT ![t] = "analyze"]
    /\ UNCHANGED <<latest_frame, latest_analysis, last_known_emotions, stop_thread,
                   fpc, session, emotional_moods, returned, analysis>>
    /\ UNCHANGED devVars
    /\ UNCHANGED <<recVars, appVars>>

\* lines 21-22: the 0.1 s sleep ends, continue leaves the with block
BgWake(t) ==
    /\ bpc[t] = "idle"
    /\ lock' = lock \ {t}
    /\ bpc' = [bpc EXCEPT ![t] = "check"]
    /\ UNCHANGED <<latest_frame, latest_analysis, last_known_emotions, stop_thread,
                   fpc, session, emotional_moods, returned, frame_to_analyze,
                   analysis>>
    /\ UNCHANGED devVars
    /\ UNCHANGED <<recVars, appVars>>

\* labels whose publication is still to come
Pending == {u \in Threads : bpc[u] \in {"publish", "publishing"}}

\* lines 26-35, 41: the classifier call returns a result with a dominant
\* emotion, returns an empty result, or raises.  The locals of an iteration
\* are dropped when the iteration has no further use for them.
BgClassify(t, outcome) ==
    /\ bpc[t] = "analyze"
    /\ outcome \in Labels => Len(last_known_emotions) + Cardinality(Pending) < MaxSeries
    /\ analysis' = [analysis EXCEPT ![t] = outcome]
    /\ frame_to_analyze' = [frame_to_analyze EXCEPT ![t] =
                               IF outcome = "empty" THEN 0 ELSE @]
    /\ bpc' = [bpc EXCEPT ![t] = IF outcome = "raise" THEN "except"
                                 ELSE IF outcome = "empty" THEN "sleep"
                                 ELSE "publish"]
    /\ UNCHANGED <<latest_frame, latest_analysis, last_known_emotions, stop_thread,
                   lock, fpc, session, emotional_moods, returned>>
    /\ UNCHANGED devVars
    /\ UNCHANGED <<recVars, appVars>>

\* line 37: with data_lock
BgPublishAcquire(t) ==
    /\ bpc[t] = "publish"
    /\ lock = {}
    /\ lock' = {t}
    /\ bpc' = [bpc EXCEPT ![t] = "publishing"]
    /\ UNCHANGED <<latest_frame, latest_analysis, last_known_emotions, stop_thread,
                   fpc, session, emotional_moods, returned, frame_to_analyze,
                   analysis>>
    /\ UNCHANGED devVars
    /\ UNCHANGED <<recVars, appVars>>

\* lines 38-39: the analysis is published and its dominant emotion appended
BgPublish(t) ==
    /\ bpc[t] = "publishing"
    /\ latest_analysis' = <<analysis[t]>>
    /\ last_known_emotions' = Published(last_known_emotions, analysis[t])
    /\ lock' = lock \ {t}
    /\ bpc' = [bpc EXCEPT ![t] = "sleep"]
    /\ analysis' = [analysis EXCEPT ![t] = "empty"]
    /\ frame_to_analyze' = [frame_to_analyze EXCEPT ![t] = 0]
    /\ UNCHANGED <<latest_frame, stop_thread, fpc, session, emotional_moods,
                   returned>>
    /\ UNCHANGED devVars
    /\ UNCHANGED <<recVars, appVars>>

\* lines 41-42: the exception is caught, with data_lock
BgExceptAcquire(t) ==
    /\ bpc[t] = "except"
    /\ lock = {}
    /\ lock' = {t}
    /\ bpc' = [bpc EXCEPT ![t] = "excepting"]
    /\ UNCHANGED <<latest_frame, latest_analysis, last_known_emotions, stop_thread,
                   fpc, session, emotional_moods, returned, frame_to_analyze,
                   analysis>>
    /\ UNCHANGED devVars
    /\ UNCHANGED <<recVars, appVars>>

\* line 43: latest_analysis = {}
BgExcept(t) ==
    /\ bpc[t] = "excepting"
    /\ latest_analysis' = <<>>
    /\ lock' = lock \ {t}
    /\ bpc' = [bpc EXCEPT ![t] = "sleep"]
    /\ analysis' = [analysis EXCEPT ![t] = "empty"]
    /\ frame_to_analyze' = [frame_to_analyze EXCEPT ![t] = 0]
    /\ UNCHANGED <<latest_frame, last_known_emotions, stop_thread, fpc, session,
                   emotional_moods, returned>>
    /\ UNCHANGED devVars
    /\ UNCHANGED <<recVars, appVars>>

\* line 45: time.sleep(0.5)
BgSleep(t) ==
    /\ bpc[t] = "sleep"
    /\ bpc' = [bpc EXCEPT ![t] = "check"]
    /\ UNCHANGED <<latest_frame, latest_analysis, last_known_emotions, stop_thread,
                   lock, fpc, session, emotional_moods, returned, frame_to_analyze,
                   analysis>>
    /\ UNCHANGED devVars
    /\ UNCHANGED <<recVars, appVars>>

\* the globals the foreground statement at a position reads or writes
FgAccess(pos) ==
    CASE pos = "idle" -> SharedFields
      [] pos = "publish" -> {"latest_frame", "latest_analysis"}
      [] pos = "stop" -> {"stop_thread"}
      [] pos \in {"agg120", "agg124"} -> {"last_known_emotions"}
      [] pos = "agg126" -> IF emotional_moods = <<>> THEN {"last_known_emotions"} ELSE {}
      [] OTHER -> {}

\* the globals the background statement at a position reads or writes
BgAccess(pos) ==
    CASE pos = "check" -> {"stop_thread"}
      [] pos = "test" -> {"latest_frame"}
      [] pos = "publishing" -> {"latest_analysis", "last_known_emotions"}
      [] pos = "excepting" -> {"latest_analysis"}
      [] OTHER -> {}

\* the background threads that have been started and have not ended
Alive == {t \in Threads : bpc[t] \notin {"none", "done"}}

\* the steps of one session of the foreground task, once it has begun
FgNext ==
    \/ FgOpenFails
    \/ FgOpenStarts
    \/ FgAcquire
    \/ FgPublish
    \/ FgLeaveLoop
    \/ FgStop
    \/ FgJoinEnds
    \/ FgJoinTimesOut
    \/ FgAgg120
    \/ FgAgg124
    \/ FgAgg126

BgNext(t) ==
    \/ BgCheck(t)
    \/ BgAcquire(t)
    \/ BgTest(t)
    \/ BgWake(t)
    \/ \E outcome \in Labels \cup {"empty", "raise"} : BgClassify(t, outcome)
    \/ BgPublishAcquire(t)
    \/ BgPublish(t)
    \/ BgExceptAcquire(t)
    \/ BgExcept(t)
    \/ BgSleep(t)

CamNext ==
    \/ FgReset
    \/ FgNext
    \/ \E t \in Threads : BgNext(t)

(***************************************************************************)
(* generate_playlist (app.py 17-69) and get_artists_from_groq              *)
(* (groq_api.py 147-152).                                                  *)
(***************************************************************************)
\* request.args.get: None or a str, which may be empty
LanguageParams == { <<>>, <<Str(<<"h", "i">>)>> }
ArtistParams == { <<>>, <<Str(<<>>)>>, <<Str(<<"S", "i", "a">>)>> }

\* if artist: neither None nor the empty str
Truthy(param) == param # <<>> /\ param[1].s # <<>>

\* the mood get_mood_from_webcam returned, as the argument of get_artists
LabelText(l) ==
    CASE l = "neutral" -> <<"n", "e", "u", "t", "r", "a", "l">>
      [] l = "happy" -> <<"h", "a", "p", "p", "y">>
      [] l = "sad" -> <<"s", "a", "d">>

MoodArgOf(m) == IF m \in Labels THEN Str(LabelText(m)) ELSE NotStr

\* _load_config: None without GROQ_API_KEY, else a config with GROQ_RETRIES
Configs == { <<>>, <<1>> }

\* count=10 of line 152
HandlerCount == 10

\* the backend's answers while a request is handled
HandlerResponses == { RespThree, RespTen }

\* what a call of the playlist builder does: it returns a playlist URL, it
\* returns no URL, or it raises
PlaylistOutcomes == { "url", "none", "raise" }

\* the JSON bodies of lines 24-69
Answer(success, error) == [success |-> success, error |-> error]
MoodUndetected == Answer(FALSE, "Could not detect mood.")
PlaylistCreated == Answer(TRUE, "")
ArtistNotFound == Answer(FALSE, "Could not find artist")
NoArtists == Answer(FALSE, "No artists were received from the AI.")
PlaylistFailed == Answer(FALSE, "Could not create the Spotify playlist.")
ServerError == Answer(FALSE, "A server error occurred.")

\* get_artists has returned and its locals are gone
RecCleared ==
    /\ rpc' = "off"
    /\ moodArg' = NotStr /\ languageArg' = <<>> /\ countArg' = <<>> /\ retries' = 0
    /\ mood' = <<>> /\ language' = <<>> /\ target_count' = 0 /\ attempts' = 0
    /\ attempt' = 0 /\ prompt' = [strict |-> 0, withLanguage |-> FALSE]
    /\ artists' = <<>> /\ calls' = 0 /\ sleeps' = <<>>
    /\ outcomes' = {} /\ lastOutcome' = "none" /\ result' = <<>>
    /\ rawText' = <<>>

\* lines 17-18: a request arrives
HRequest ==
    /\ hpc = "idle"
    /\ requests < MaxRequests
    /\ requests' = requests + 1
    /\ languageParam' = <<>>
    /\ artistParam' = <<>>
    /\ called' = {}
    /\ recommended_artists' = <<>>
    /\ response' = <<>>
    /\ hpc' = "detect"
    /\ UNCHANGED <<recVars, camVars>>

\* line 22: get_mood_from_webcam is called
HDetect ==
    /\ hpc = "detect"
    /\ session < requests
    /\ FgReset

\* lines 19-28 without the test of line 23
HDetected_NoCheck(l, a) ==
    /\ hpc = "detect"
    /\ session = requests
    /\ fpc = "idle"
    /\ languageParam' = l
    /\ artistParam' = a
    /\ hpc' = IF Truthy(a) THEN "one_artist" ELSE "recommend"
    /\ UNCHANGED <<requests, called, recommended_artists, response>>
    /\ UNCHANGED <<recVars, camVars>>

\* lines 19-28, 43: the session has returned; None is answered at once, a
\* mood leads to one of the two branches.  The query parameters language and
\* artist of the request, which lines 19-20 read and nothing uses before
\* line 28, are drawn here.
HDetected(l, a) ==
    /\ hpc = "detect"
    /\ session = requests
    /\ fpc = "idle"
    /\ languageParam' = l
    /\ artistParam' = a
    /\ IF returned[1] \notin Labels
       THEN /\ response' = <<MoodUndetected>>
            /\ hpc' = "idle"
       ELSE /\ hpc' = IF Truthy(a) THEN "one_artist" ELSE "recommend"
            /\ UNCHANGED response
    /\ UNCHANGED <<requests, called, recommended_artists>>
    /\ UNCHANGED <<recVars, camVars>>

\* lines 29-41, 67-69: the playlist of the requested artist
HCreateForOneArtist(outcome) ==
    /\ hpc = "one_artist"
    /\ called' = called \cup {"create_playlist_for_one_artist"}
    /\ response' = <<CASE outcome = "url" -> PlaylistCreated
                       [] outcome = "none" -> ArtistNotFound
                       [] outcome = "raise" -> ServerError>>
    /\ hpc' = "idle"
    /\ UNCHANGED <<languageParam, artistParam, requests, recommended_artists>>
    /\ UNCHANGED <<recVars, camVars>>

\* line 46 and groq_api.py 147-152: get_artists_from_groq loads the config and
\* returns [] without an API key, else calls get_artists with count=10
HRecommend(cfg) ==
    /\ hpc = "recommend"
    /\ called' = called \cup {"get_artists_from_groq"}
    /\ hpc' = "recommending"
    /\ IF cfg = <<>>
       THEN /\ rpc' = "done"
            /\ result' = <<>>
            /\ UNCHANGED <<moodArg, languageArg, countArg, retries>>
       ELSE /\ rpc' = "call"
            /\ moodArg' = MoodArgOf(returned[1])
            /\ languageArg' = languageParam
            /\ countArg' = <<HandlerCount>>
            /\ retries' = cfg[1]
            /\ UNCHANGED result
    /\ UNCHANGED <<mood, language, target_count, attempts, attempt, prompt,
                   artists, calls, sleeps, outcomes, lastOutcome, rawText>>
    /\ UNCHANGED <<languageParam, artistParam, requests, recommended_artists,
                   response>>
    /\ UNCHANGED camVars

\* lines 46-50 without the test of line 47
HRecommended_NoCheck ==
    /\ hpc = "recommending"
    /\ rpc = "done"
    /\ recommended_artists' = result
    /\ hpc' = "create"
    /\ RecCleared
    /\ UNCHANGED <<languageParam, artistParam, requests, called, response>>
    /\ UNCHANGED camVars

\* lines 46-50: the recommender has returned; an empty list is answered at once
HRecommended ==
    /\ hpc = "recommending"
    /\ rpc = "done"
    /\ recommended_artists' = result
    /\ IF result = <<>>
       THEN /\ response' = <<NoArtists>>
            /\ hpc' = "idle"
       ELSE /\ hpc' = "create"
            /\ UNCHANGED response
    /\ RecCleared
    /\ UNCHANGED <<languageParam, artistParam, requests, called>>
    /\ UNCHANGED camVars

\* lines 50-69: the playlist of the recommended artists
HCreateFromArtists(outcome) ==
    /\ hpc = "create"
    /\ called' = called \cup {"create_playlist_from_artists"}
    /\ response' = <<CASE outcome = "url" -> PlaylistCreated
                       [] outcome = "none" -> PlaylistFailed
                       [] outcome = "raise" -> ServerError>>
    /\ hpc' = "idle"
    /\ UNCHANGED <<languageParam, artistParam, requests, recommended_artists>>
    /\ UNCHANGED <<recVars, camVars>>

HandlerNext ==
    \/ HRequest
    \/ HDetect
    \/ FgNext
    \/ \E t \in Threads : BgNext(t)
    \/ \E l \in LanguageParams, a \in ArtistParams : HDetected(l, a)
    \/ \E outcome \in PlaylistOutcomes : HCreateForOneArtist(outcome)
    \/ \E cfg \in Configs : HRecommend(cfg)
    \/ Begin
    \/ AttemptRaises
    \/ \E raw \in HandlerResponses : AttemptAnswers(raw)
    \/ LoopExhausted
    \/ HRecommended
    \/ \E outcome \in PlaylistOutcomes : HCreateFromArtists(outcome)

(***************************************************************************)
(* Specifications.                                                         *)
(***************************************************************************)
\* no request is being handled
AppInit ==
    /\ hpc = "idle"
    /\ languageParam = <<>>
    /\ artistParam = <<>>
    /\ requests = 0
    /\ called = {}
    /\ recommended_artists = <<>>
    /\ response = <<>>

\* one call of get_artists, for every input and every backend behaviour
RecSpecInit == RecInit /\ CamInit /\ AppInit

RecSpec == RecSpecInit /\ [][RecNext]_vars

\* sessions of get_mood_from_webcam, one after the other
CamSpecInit == RecOff /\ CamInit /\ AppInit

CamSpec == CamSpecInit /\ [][CamNext]_vars

\* the same under a fair scheduler: a task that can take a step eventually
\* takes one, a task waiting for data_lock gets it when it is free again and
\* again, every classifier call returns and the 30 s window of line 75 ends.
\* When a new session begins is left to the caller.
CamFairSpec ==
    /\ CamSpec
    /\ WF_vars(FgNext)
    /\ SF_vars(FgAcquire)
    /\ SF_vars(FgLeaveLoop)
    /\ \A t \in Threads :
          /\ WF_vars(BgNext(t))
          /\ SF_vars(BgAcquire(t))
          /\ SF_vars(BgPublishAcquire(t))
          /\ SF_vars(BgExceptAcquire(t))

\* requests served one after the other, each with its capture session and,
\* without a requested artist, its recommender call
HandlerSpecInit == RecOff /\ CamInit /\ AppInit

HandlerSpec == HandlerSpecInit /\ [][HandlerNext]_vars

\* one application of _parse_artists, for every text and target_count
ParseTargets == ((0 - 1)..MaxCount) \cup {EnforceCount}

ParseInit ==
    /\ rpc = "parse"
    /\ rawText \in ParseTexts
    /\ target_count \in ParseTargets
    /\ moodArg = NotStr /\ languageArg = <<>> /\ countArg = <<>> /\ retries = 0
    /\ mood = <<>> /\ language = <<>> /\ attempts = 0
    /\ attempt = 0 /\ prompt = [strict |-> 0, withLanguage |-> FALSE]
    /\ artists = <<>> /\ calls = 0 /\ sleeps = <<>>
    /\ outcomes = {} /\ lastOutcome = "none" /\ result = <<>>

\* lines 86-119
Parse ==
    /\ rpc = "parse"
    /\ artists' = ParseArtists(rawText, target_count)
    /\ rpc' = "parsed"
    /\ UNCHANGED <<moodArg, languageArg, countArg, retries, mood, language,
                   target_count, attempts, attempt, prompt, calls, sleeps,
                   outcomes, lastOutcome, result, rawText>>
    /\ UNCHANGED <<camVars, appVars>>

ParseNext == Parse

ParseSpecInit == ParseInit /\ CamInit /\ AppInit

ParseSpec == ParseSpecInit /\ [][ParseNext]_vars

\* the aggregation of lines 120-134 on a series no task changes any more: a
\* session whose thread has ended, for every series
AggInit ==
    /\ latest_frame = 1
    /\ latest_analysis = <<>>
    /\ last_known_emotions \in UNION {[1..n -> Labels] : n \in 0..MaxAggSeries}
    /\ stop_thread = TRUE
    /\ lock = {}
    /\ fpc = "agg120"
    /\ session = 1
    /\ emotional_moods = <<>>
    /\ returned = <<>>
    /\ bpc = [t \in Threads |-> IF t = 1 THEN "done" ELSE "none"]
    /\ frame_to_analyze = [t \in Threads |-> 0]
    /\ analysis = [t \in Threads |-> "empty"]
    /\ cap_opened = FALSE
    /\ window_shown = FALSE

AggNext ==
    \/ FgAgg120
    \/ FgAgg124
    \/ FgAgg126

AggSpecInit == RecOff /\ AggInit /\ AppInit

AggSpec == AggSpecInit /\ [][AggNext]_vars
(***************************************************************************)
(* Properties of get_artists.                                              *)
(***************************************************************************)
\* C1: whatever the mood, language, count and backend outcomes, the list
\* get_artists returns is empty or has exactly target_count names.
C1_EmptyOrExactLength ==
    result = <<>> \/ Len(result) = (IF countArg = <<>> \/ countArg[1] = 0
                                    THEN EnforceCount ELSE countArg[1])

\* a call that returned a full list after a failed and a non-matching attempt
C1_Witness ==
    /\ rpc = "done" /\ result # <<>> /\ outcomes = {"raise", "text"}
    /\ calls >= 3 /\ Len(result) = MaxCount

\* the last permitted attempt got a text whose cleaned list has the wrong length
C2_FinalAttemptNonMatching ==
    /\ rpc = "done"
    /\ lastOutcome = "text"
    /\ calls = attempts
    /\ Len(artists) # target_count

\* C2 as stated: when the last permitted attempt's cleaned list has a length
\* different from target_count, get_artists returns that partial list.
C2_FinalPartialReturned == C2_FinalAttemptNonMatching => result = artists

\* C2 as amended: when the last permitted attempt's cleaned list has a length
\* different from target_count, get_artists returns the empty list and the
\* partial list is dropped.
C2_FinalPartialDropped == C2_FinalAttemptNonMatching => result = <<>>

\* the last attempt parsed a non-empty partial list
C2_Witness == C2_FinalAttemptNonMatching /\ artists # <<>> /\ calls >= 2

\* a finished call with an accepted mood whose backend calls all raised
C3_AllRaised ==
    /\ rpc = "done"
    /\ moodArg.isStr /\ \E i \in 1..Len(moodArg.s) : moodArg.s[i] \notin Whitespace
    /\ outcomes \subseteq {"raise"}

\* C3 as stated: with every backend call raising, get_artists makes exactly
\* `retries` backend calls and returns [], for every integer retries.
C3_ExactlyRetriesCalls == C3_AllRaised => (calls = retries /\ result = <<>>)

\* C3 as amended: with every backend call raising, get_artists makes exactly
\* max(1, retries) backend calls and returns [].
C3_ExactlyClampedCalls ==
    C3_AllRaised => (calls = (IF retries < 1 THEN 1 ELSE retries) /\ result = <<>>)

\* a retries setting below one still makes one call
C3_Witness == C3_AllRaised /\ retries < 1 /\ calls = 1

C4_Schedule(k) ==
    IF BackoffInitial * Pow2(k - 1) > BackoffMax THEN BackoffMax
    ELSE BackoffInitial * Pow2(k - 1)

RECURSIVE C4_Total(_)
C4_Total(n) == IF n <= 0 THEN 0 ELSE C4_Schedule(n) + C4_Total(n - 1)

RECURSIVE C4_Sum(_)
C4_Sum(ds) == IF ds = <<>> THEN 0 ELSE Head(ds) + C4_Sum(Tail(ds))

\* C4: the k-th sleep of a call follows attempt k and lasts
\* min(backoff_initial * 2^(k-1), backoff_max); the delays never decrease and
\* never exceed backoff_max; no sleep follows the final or a successful
\* attempt, so A failed attempts sleep the sum of the first A-1 delays.
C4_BackoffSchedule ==
    /\ \A k \in 1..Len(sleeps) : sleeps[k] = C4_Schedule(k) /\ sleeps[k] <= BackoffMax
    /\ \A k \in 1..(Len(sleeps) - 1) : sleeps[k] <= sleeps[k + 1]
    /\ (rpc = "loop" /\ attempt <= attempts) => Len(sleeps) = calls
    /\ (rpc = "loop" /\ attempt > attempts) => Len(sleeps) = calls - 1
    /\ (rpc = "done" /\ calls >= 1) => Len(sleeps) = calls - 1
    /\ (rpc = "done" /\ result = <<>> /\ calls >= 1) =>
           C4_Sum(sleeps) = C4_Total(calls - 1)

\* a call that reached the cap: its fifth delay is backoff_max, not 9.6 s
C4_Witness ==
    /\ rpc = "done" /\ result = <<>> /\ Len(sleeps) >= 5
    /\ sleeps[5] = BackoffMax /\ sleeps[4] < BackoffMax

\* the mood is not a string, is empty, or is whitespace only
C5_BadMood ==
    ~moodArg.isStr \/ \A i \in 1..Len(moodArg.s) : moodArg.s[i] \in Whitespace

\* C5: a mood that is not a string, is empty or is whitespace only makes
\* get_artists return [] with no backend call and no sleep.
C5_BadMoodNoCall ==
    C5_BadMood =>
        /\ calls = 0 /\ sleeps = <<>>
        /\ rpc \in {"call", "done"}
        /\ rpc = "done" => result = <<>>

\* a whitespace-only mood was rejected although retries and a count were set
C5_Witness ==
    /\ rpc = "done" /\ moodArg.isStr /\ Len(moodArg.s) = 2
    /\ C5_BadMood /\ retries > 1 /\ countArg # <<>>

\* the attempt just made failed: its call raised or its cleaned list has
\* another length than target_count
C16_LastFailed == lastOutcome = "raise" \/ Len(artists) # target_count

\* C16: the backend calls of one get_artists call are made one at a time;
\* call k+1 is made exactly when k is below the attempt limit and the calls
\* before it all raised or gave a list of another length than target_count;
\* the first call whose cleaned list has exactly target_count names ends the
\* call at once with that list, with no further backend call and no sleep.
C16_SequentialAttempts ==
    [][ /\ calls' \in {calls, calls + 1}
        /\ calls' = calls + 1 =>
               /\ rpc = "loop" /\ result = <<>>
               /\ attempt = calls + 1
               /\ calls < attempts
               /\ calls >= 1 => C16_LastFailed
        /\ (rpc' = "loop" /\ calls' < attempts') =>
               (attempt' = calls' + 1 /\ (calls' >= 1 => C16_LastFailed'))
        /\ (calls' = calls + 1 /\ ~C16_LastFailed') =>
               (rpc' = "done" /\ result' = artists' /\ sleeps' = sleeps)
        /\ (rpc' = "done" /\ calls' >= 1) =>
               \/ ~C16_LastFailed' /\ result' = artists'
               \/ C16_LastFailed' /\ calls' = attempts' /\ result' = <<>>
        /\ rpc = "done" => (calls' = calls /\ sleeps' = sleeps /\ result' = result)
      ]_vars

\* the third call of a call with more attempts left gave a full list after a
\* raised call and a short list, and the call ended there
C16_Witness ==
    /\ rpc = "done" /\ calls = 3 /\ attempts > 3
    /\ outcomes = {"raise", "text"}
    /\ result = artists /\ Len(result) = target_count
    /\ Len(sleeps) = 2

(***************************************************************************)
(* Properties of _parse_artists.                                           *)
(***************************************************************************)
\* the candidate names of a response in the order they occur: its cleaned
\* lines that are not a preamble and hold a letter
RECURSIVE C14_Keep(_)
C14_Keep(lines) ==
    IF lines = <<>> THEN <<>>
    ELSE LET item == CleanItem(Head(lines))
         IN IF IsPreamble(item) \/ ~HasLetter(item)
            THEN C14_Keep(Tail(lines))
            ELSE <<item>> \o C14_Keep(Tail(lines))

C14_Candidates(text) ==
    IF text = <<>> THEN <<>> ELSE C14_Keep(Resplit(SplitLines(Strip(text))))

C14_SameName(a, b) == ToLower(a) = ToLower(b)

\* the place where a name occurs first among the candidates, ignoring case
C14_FirstAt(items, name) ==
    CHOOSE p \in 1..Len(items) :
        /\ C14_SameName(items[p], name)
        /\ \A q \in 1..(p - 1) : ~C14_SameName(items[q], name)

C14_HasRepeat(items) ==
    \E i, j \in 1..Len(items) : i < j /\ C14_SameName(items[i], items[j])

\* the parsed list holds no two names equal ignoring case, holds the
\* candidates' first occurrences in their order with none skipped, and is no
\* longer than limit; target_count candidates with a repeat give fewer than
\* target_count names, and a list of another length than target_count is not
\* returned by get_artists
C14_Parsed(limit) ==
    lastOutcome = "text" =>
        LET items == C14_Candidates(rawText)
            n == Len(artists)
        IN /\ \A i, j \in 1..n : i < j => ~C14_SameName(artists[i], artists[j])
           /\ \A i \in 1..n :
                  /\ \E p \in 1..Len(items) : C14_SameName(items[p], artists[i])
                  /\ artists[i] = items[C14_FirstAt(items, artists[i])]
           /\ \A i \in 1..(n - 1) :
                  C14_FirstAt(items, artists[i]) < C14_FirstAt(items, artists[i + 1])
           /\ n >= 1 =>
                  \A q \in 1..C14_FirstAt(items, artists[n]) :
                      \E i \in 1..n : C14_SameName(items[q], artists[i])
           /\ n <= limit
           /\ (Len(items) = target_count /\ C14_HasRepeat(items)) => n < target_count
           /\ n # target_count => result = <<>>

\* C14 as stated: the list _parse_artists returns has no two names equal
\* ignoring case, keeps first-seen order and has length at most target_count;
\* names are deduplicated before the length check, so target_count candidate
\* lines with a repeat parse to fewer names and get_artists does not accept them.
C14_DedupedWithinTarget == C14_Parsed(target_count)

\* C14 as amended: the same, with length at most target_count when
\* target_count is not negative and the empty list when it is negative.
C14_DedupedWithinTargetOrEmpty ==
    C14_Parsed(IF target_count < 0 THEN 0 ELSE target_count)

\* Adele, Drake, adele with target_count 3 parsed to [Adele, Drake] on the
\* last attempt of a call, which returned []
C14_Witness ==
    /\ rpc = "done" /\ lastOutcome = "text" /\ rawText = RespDupCase
    /\ target_count = 3 /\ Len(artists) = 2
    /\ artists[1] = <<"A", "d", "e", "l", "e">>
    /\ artists[2] = <<"D", "r", "a", "k", "e">>
    /\ result = <<>>

\* the pieces of a line split on a separator, stripped, the empty ones dropped
C15_Pieces(line, sep) == StripAllNonEmpty(Split(line, sep))

\* what _parse_artists returns when its cleaning loop is given these lines
C15_Cleaned(ls) == Truncate(CleanLoop(ls, <<>>, {}, target_count), target_count)

\* C15: a response is re-split only when it has exactly one non-empty line
\* that contains a comma, " (bullet) " or " | "; it is then split on the pipe
\* separator if the line has one, else on the bullet separator if it has one,
\* else on the comma, whatever other separators the line holds; a response of
\* two or more non-empty lines is never re-split.
C15_ResplitRule ==
    (rpc = "parsed" /\ rawText # <<>>) =>
        LET ls == SplitLines(Strip(rawText))
            hasPipe == Contains(ls[1], PipeSep)
            hasBullet == Contains(ls[1], BulletSep)
            hasComma == Contains(ls[1], Comma)
        IN /\ Len(ls) # 1 => artists = C15_Cleaned(ls)
           /\ (Len(ls) = 1 /\ ~hasPipe /\ ~hasBullet /\ ~hasComma) =>
                  artists = C15_Cleaned(ls)
           /\ (Len(ls) = 1 /\ hasPipe) =>
                  artists = C15_Cleaned(C15_Pieces(ls[1], PipeSep))
           /\ (Len(ls) = 1 /\ ~hasPipe /\ hasBullet) =>
                  artists = C15_Cleaned(C15_Pieces(ls[1], BulletSep))
           /\ (Len(ls) = 1 /\ ~hasPipe /\ ~hasBullet /\ hasComma) =>
                  artists = C15_Cleaned(C15_Pieces(ls[1], Comma))

\* a line holding all three separators was split on the pipe alone
C15_Witness ==
    /\ rpc = "parsed" /\ rawText = RespAllSeps /\ target_count = EnforceCount
    /\ Len(artists) = 2
    /\ artists[1] = <<"A", "d", "e", "l", "e">>
    /\ Contains(artists[2], BulletSep) /\ Contains(artists[2], Comma)

(***************************************************************************)
(* Properties of the request handler.                                      *)
(***************************************************************************)
\* the session of the current request could not open the webcam
C12_OpenFailed == session = requests /\ returned = <<"None">>

\* C12: when the webcam cannot be opened the session returns None with no
\* background task started, and the handler answers success=false, "Could
\* not detect mood.", and calls neither the recommender nor a playlist
\* creation, whatever the artist and language parameters are.
C12_NoDeviceNoPlaylist ==
    C12_OpenFailed =>
        /\ bpc[session] = "none"
        /\ ~cap_opened /\ ~window_shown
        /\ hpc \in {"detect", "idle"}
        /\ called = {}
        /\ rpc = "off"
        /\ hpc = "idle" => response = <<MoodUndetected>>

\* a request with an artist and a language was answered after a failed open
C12_Witness ==
    /\ C12_OpenFailed /\ hpc = "idle" /\ response = <<MoodUndetected>>
    /\ Truthy(artistParam) /\ languageParam # <<>>

\* C17: when the recommender yields an empty list, for a missing API key, for
\* failed backend calls or for malformed output, the handler answers
\* success=false with the no-artists error, not the server error of an
\* exception, and never calls the playlist creation for that request; the
\* playlist is created from recommended artists only when there are some.
C17_EmptyListNoPlaylist ==
    /\ (hpc = "recommending" /\ rpc = "done" /\ result = <<>>) => called = {"get_artists_from_groq"}
    /\ ("get_artists_from_groq" \in called /\ hpc \in {"idle", "create"}
            /\ recommended_artists = <<>>) =>
           /\ hpc = "idle"
           /\ response = <<NoArtists>>
           /\ called = {"get_artists_from_groq"}
    /\ (hpc = "create" \/ "create_playlist_from_artists" \in called) =>
           Len(recommended_artists) = HandlerCount

\* a request with a language and no artist, whose session found a mood, was
\* answered with the no-artists error after the recommender alone was called
C17_Witness ==
    /\ hpc = "idle" /\ response = <<NoArtists>>
    /\ called = {"get_artists_from_groq"} /\ recommended_artists = <<>>
    /\ returned = <<"happy">> /\ languageParam # <<>> /\ artistParam = <<>>

(***************************************************************************)
(* Properties of the mood session.                                         *)
(***************************************************************************)
C6_Count(l) ==
    Cardinality({i \in 1..Len(last_known_emotions) : last_known_emotions[i] = l})

C6_First(l) ==
    CHOOSE i \in 1..Len(last_known_emotions) :
        /\ last_known_emotions[i] = l
        /\ \A j \in 1..(i - 1) : last_known_emotions[j] # l

\* C6: the aggregation returns "neutral" exactly when the series holds no
\* non-neutral label; otherwise it returns the non-neutral label with the
\* highest count, and among labels tied for it the one that occurs first.
C6_Aggregation ==
    (returned # <<>> /\ returned[1] \in Labels) =>
        LET m == returned[1] IN
        /\ m = "neutral" <=>
               \A i \in 1..Len(last_known_emotions) : last_known_emotions[i] = "neutral"
        /\ m # "neutral" =>
               /\ C6_Count(m) >= 1
               /\ \A l \in Labels \ {"neutral", m} :
                      /\ C6_Count(l) <= C6_Count(m)
                      /\ C6_Count(l) = C6_Count(m) => C6_First(m) < C6_First(l)

\* neutral is the most frequent label and two others tie: the earlier one wins
C6_Witness ==
    /\ last_known_emotions = <<"neutral", "sad", "neutral", "happy">>
    /\ returned = <<"sad">>

\* C7: every read and write of latest_frame, latest_analysis, the mood series
\* and the stop flag, by either task, is made while the task holds data_lock.
C7_AllAccessLocked ==
    [][ /\ (fpc' # fpc /\ FgAccess(fpc) # {}) => Foreground \in lock
        /\ \A t \in Threads :
               (bpc'[t] # bpc[t] /\ BgAccess(bpc[t]) # {}) => t \in lock ]_vars

\* C8: over any sequence of sessions, while a session captures exactly one
\* background analysis task is alive beside the foreground loop, and never
\* are two background analysis tasks alive at the same time.
C8_OneBackgroundTask ==
    /\ fpc \in {"loop", "publish", "stop"} => Alive = {session}
    /\ Cardinality(Alive) <= 1

\* C9: once a session has set the stop flag, the background task it started
\* eventually ends, whatever sessions follow.
C9_StopEndsThread ==
    \A t \in Threads : (session = t /\ fpc = "join") ~> (bpc[t] = "done")

C10_IsPrefix(a, b) == Len(a) <= Len(b) /\ SubSeq(b, 1, Len(a)) = a

\* C10: a classifier call that gives a dominant emotion appends exactly that
\* label, with data_lock held; one that raises or gives an empty result
\* appends nothing and does not end the task; while a session captures, the
\* series is only ever extended.
C10_ClassificationAppends ==
    [][ /\ \A t \in Threads :
               /\ (bpc[t] = "analyze" /\ bpc'[t] # "analyze") =>
                      /\ analysis'[t] \in Labels <=> bpc'[t] = "publish"
                      /\ analysis'[t] = "raise" <=> bpc'[t] = "except"
                      /\ analysis'[t] = "empty" <=> bpc'[t] = "sleep"
                      /\ last_known_emotions' = last_known_emotions
               /\ (bpc[t] = "publish" /\ bpc'[t] # "publish") =>
                      /\ bpc'[t] = "publishing" /\ t \in lock'
                      /\ last_known_emotions' = last_known_emotions
               /\ (bpc[t] = "publishing" /\ bpc'[t] # "publishing") =>
                      /\ t \in lock
                      /\ analysis[t] \in Labels
                      /\ last_known_emotions' = Append(last_known_emotions, analysis[t])
                      /\ bpc'[t] = "sleep"
               /\ (bpc[t] \in {"except", "excepting", "sleep"} /\ bpc'[t] # bpc[t]) =>
                      /\ last_known_emotions' = last_known_emotions
                      /\ bpc'[t] \in {"excepting", "sleep", "check"}
        /\ fpc \in {"loop", "publish", "stop"} =>
               C10_IsPrefix(last_known_emotions, last_known_emotions') ]_vars

\* while a session captures, a second label has been appended after a first
\* and a classifier call that raised is being handled
C10_Witness ==
    /\ fpc \in {"loop", "publish"}
    /\ Len(last_known_emotions) = 2
    /\ last_known_emotions[1] # last_known_emotions[2]
    /\ \E t \in Threads : bpc[t] = "excepting" /\ t = session

\* C11: a background task never holds data_lock while its classifier call is
\* in progress, so whoever holds the lock while a task classifies is another
\* task, and the foreground loop takes the lock during classifications.
C11_NoLockWhileClassifying ==
    \A t \in Threads : bpc[t] = "analyze" => t \notin lock

\* the foreground loop holds data_lock while the session's own task is inside
\* the classifier call on a frame of this session
C11_Witness ==
    /\ fpc = "publish" /\ lock = {Foreground}
    /\ bpc[session] = "analyze" /\ frame_to_analyze[session] = session

\* C13: once the capture loop has been left, by the end of the 30 s window, by
\* 'q' or by a failed read, and until the session has returned its mood, the
\* stop flag is set, the webcam is released and the window is destroyed; the
\* webcam is held only while the loop runs.
C13_ExitReleases ==
    /\ (fpc \in {"join", "agg120", "agg124", "agg126"}
          \/ (fpc = "idle" /\ returned # <<>> /\ returned[1] \in Labels)) =>
           (stop_thread /\ ~cap_opened /\ ~window_shown)
    /\ (cap_opened \/ window_shown) => fpc \in {"loop", "publish", "stop"}

\* a session has returned a mood found in its series, with the webcam
\* released, while its thread is still inside a classifier call
C13_Witness ==
    /\ fpc = "idle" /\ returned = <<"happy">> /\ session = 1
    /\ stop_thread /\ ~cap_opened /\ ~window_shown
    /\ bpc[1] = "analyze"

\* C18: every label appended to the mood series comes from a classification
\* of a frame captured in the session the series belongs to; a classification
\* begun in an earlier session never appends to a later session's series.
C18_SessionIsolation ==
    [][ \A t \in Threads :
            (bpc[t] = "publishing" /\ bpc'[t] # "publishing") =>
                frame_to_analyze[t] = session ]_vars

\* C19: from the end of the bounded join until the session returns, no task
\* appends to the mood series.
C19_SeriesStableInAggregation ==
    [][ (fpc \in {"agg120", "agg124", "agg126"}) =>
            (last_known_emotions' = last_known_emotions) ]_vars

\* C20: a background task never sleeps, in the 0.1 s idle sleep or in the
\* 0.5 s sleep between classifications, while it holds data_lock.
C20_NoSleepWithLock ==
    \A t \in Threads : bpc[t] \in {"idle", "sleep"} => t \notin lock

====
